---- MODULE Spec2Model ----
(***************************************************************************)
(* A model of dead-exports-scanner (src/index.ts): the directory walk      *)
(* getAllFiles, the export extractor getExports, the import detector       *)
(* isImported, the cross-referencing getFilesWithDeadExports and main.     *)
(*                                                                         *)
(* Texts, names and path components are sequences of one-character         *)
(* strings, so that the two regular expressions of the program are         *)
(* evaluated character by character.                                       *)
(***************************************************************************)
EXTENDS Integers, Sequences, FiniteSets, TLC

(***************************************************************************)
(* Characters and the character classes of ECMAScript regular expressions. *)
(***************************************************************************)
LowerChars == {"a","b","c","d","e","f","g","h","i","j","k","l","m",
               "n","o","p","q","r","s","t","u","v","w","x","y","z"}

UpperChars == {"A","B","C","D","E","F","G","H","I","J","K","L","M",
               "N","O","P","Q","R","S","T","U","V","W","X","Y","Z"}

DigitChars == {"0","1","2","3","4","5","6","7","8","9"}

\* \w
WordChars == LowerChars \cup UpperChars \cup DigitChars \cup {"_"}

\* \s (the members a TLA+ string can hold)
SpaceChars == {" ", "\t", "\n", "\r", "\f"}

\* the characters "." refuses (no s flag): the line terminators (U+2028
\* and U+2029, which it refuses too, are left out of the texts)
LineTerminators == {"\n", "\r"}

(***************************************************************************)
(* Regular expressions as trees, and a backtracking matcher.               *)
(*   Lit(s)    the characters of s, in order                               *)
(*   In(S)     one character of the set S                                  *)
(*   NotIn(S)  one character outside the set S                             *)
(*   Cat(rs)   the members of rs one after the other                       *)
(*   Alt(rs)   the first member of rs that lets the whole match succeed    *)
(*   Plus(r)   r one or more times, greedy                                 *)
(***************************************************************************)
Lit(s) == [t |-> "lit", s |-> s]

In(S) == [t |-> "in", c |-> S]

NotIn(S) == [t |-> "notin", c |-> S]

Cat(rs) == [t |-> "cat", rs |-> rs]

Alt(rs) == [t |-> "alt", rs |-> rs]

Plus(r) == [t |-> "plus", r |-> r]

RECURSIVE Dedup(_, _)
\* s without the members of seen and without repeats, first occurrences kept
Dedup(s, seen) ==
  IF s = <<>> THEN <<>>
  ELSE IF Len(s) = 1 THEN (IF s[1] \in seen THEN <<>> ELSE s)
  ELSE LET half  == Len(s) \div 2
           left  == Dedup(SubSeq(s, 1, half), seen)
       IN  left \o Dedup(SubSeq(s, half + 1, Len(s)),
                         seen \cup {left[k] : k \in 1..Len(left)})

RECURSIVE IsOneChar(_)
\* re matches exactly one character, whatever the text
IsOneChar(re) ==
  CASE re.t = "lit" -> Len(re.s) = 1
    [] re.t = "in" -> TRUE
    [] re.t = "notin" -> TRUE
    [] re.t = "alt" -> \A k \in 1..Len(re.rs) : IsOneChar(re.rs[k])
    [] OTHER -> FALSE

RECURSIVE Accepts(_, _)
\* c is a character that a one-character re matches
Accepts(re, c) ==
  CASE re.t = "lit" -> re.s[1] = c
    [] re.t = "in" -> c \in re.c
    [] re.t = "notin" -> c \notin re.c
    [] re.t = "alt" -> \E k \in 1..Len(re.rs) : Accepts(re.rs[k], c)

\* Greedy r+ for a one-character r: from the end of the longest run of
\* characters r matches, back to one character
RunEnds(r, text, i) ==
  LET stops == {j \in (i + 1)..Len(text) : ~Accepts(r, text[j])}
      last  == IF stops = {} THEN Len(text)
               ELSE (CHOOSE j \in stops : \A k \in stops : j <= k) - 1
  IN  [k \in 1..(last - i) |-> last - k + 1]

RECURSIVE Ends(_, _, _)
RECURSIVE EndsFromAll(_, _, _)
RECURSIVE CatEnds(_, _, _, _)
RECURSIVE AltEnds(_, _, _, _)
RECURSIVE PlusOver(_, _, _)

\* The offsets at which a match of re that starts at offset i of text can
\* end, in the order in which a backtracking matcher tries them.
Ends(re, text, i) ==
  CASE re.t = "lit" ->
         IF /\ i + Len(re.s) <= Len(text)
            /\ SubSeq(text, i + 1, i + Len(re.s)) = re.s
         THEN <<i + Len(re.s)>> ELSE <<>>
    [] re.t = "in" ->
         IF i < Len(text) /\ text[i + 1] \in re.c THEN <<i + 1>> ELSE <<>>
    [] re.t = "notin" ->
         IF i < Len(text) /\ text[i + 1] \notin re.c THEN <<i + 1>> ELSE <<>>
    [] re.t = "cat" -> CatEnds(re.rs, 1, text, <<i>>)
    [] re.t = "alt" -> Dedup(AltEnds(re.rs, 1, text, i), {})
    [] re.t = "plus" ->
         IF IsOneChar(re.r) THEN RunEnds(re.r, text, i)
         ELSE Dedup(PlusOver(re.r, text, Dedup(Ends(re.r, text, i), {i})), {})

\* Ends from each of the offsets of starts, in order.
EndsFromAll(re, text, starts) ==
  IF starts = <<>> THEN <<>>
  ELSE IF Len(starts) = 1 THEN Ends(re, text, starts[1])
  ELSE LET half == Len(starts) \div 2
       IN  EndsFromAll(re, text, SubSeq(starts, 1, half))
             \o EndsFromAll(re, text, SubSeq(starts, half + 1, Len(starts)))

CatEnds(rs, k, text, starts) ==
  IF k > Len(rs) \/ starts = <<>> THEN starts
  ELSE CatEnds(rs, k + 1, text, Dedup(EndsFromAll(rs[k], text, starts), {}))

AltEnds(rs, k, text, i) ==
  IF k > Len(rs) THEN <<>>
  ELSE Ends(rs[k], text, i) \o AltEnds(rs, k + 1, text, i)

\* Greedy r+: after each way es[k] of matching r once more, first every way
\* of going on from there, then stopping there.
PlusOver(r, text, es) ==
  IF es = <<>> THEN <<>>
  ELSE PlusOver(r, text, Dedup(Ends(r, text, Head(es)), {Head(es)}))
         \o <<Head(es)>> \o PlusOver(r, text, Tail(es))

RECURSIVE MatchAllFrom(_, _, _)
\* String.prototype.match with a g regular expression: the matches from left
\* to right, each searched from the end of the one before.
MatchAllFrom(re, text, pos) ==
  LET starts == {p \in pos..Len(text) : Ends(re, text, p) # <<>>}
      first  == CHOOSE p \in starts : \A q \in starts : p <= q
      end    == Ends(re, text, first)[1]
  IN  IF starts = {} THEN <<>>
      ELSE <<SubSeq(text, first + 1, end)>>
             \o MatchAllFrom(re, text, IF end = first THEN first + 1 ELSE end)

StringMatch(text, re) == MatchAllFrom(re, text, 0)

(***************************************************************************)
(* getExports: the pattern of line 57 and the reduce of lines 61-71.       *)
(***************************************************************************)
ExportKeywords ==
  << <<"c","o","n","s","t">>,
     <<"l","e","t">>,
     <<"v","a","r">>,
     <<"c","l","a","s","s">>,
     <<"i","n","t","e","r","f","a","c","e">>,
     <<"t","y","p","e">>,
     <<"e","n","u","m">>,
     <<"d","e","f","a","u","l","t"," ","a","s","y","n","c"," ",
       "f","u","n","c","t","i","o","n">>,
     <<"d","e","f","a","u","l","t"," ","f","u","n","c","t","i","o","n">>,
     <<"f","u","n","c","t","i","o","n">>,
     <<"d","e","f","a","u","l","t">> >>

\* /export\s+(const|...|default)\s+(\w+)/g
ExportPattern ==
  Cat(<< Lit(<<"e","x","p","o","r","t">>),
         Plus(In(SpaceChars)),
         Alt([k \in 1..Len(ExportKeywords) |-> Lit(ExportKeywords[k])]),
         Plus(In(SpaceChars)),
         Plus(In(WordChars)) >>)

\* String.prototype.split with a one-character separator
Split(s, sep) ==
  LET seps  == {k \in 1..Len(s) : s[k] = sep}
      n     == Cardinality(seps)
      At(j) == IF j = 0 THEN 0
               ELSE IF j = n + 1 THEN Len(s) + 1
               ELSE CHOOSE k \in seps : Cardinality({i \in seps : i < k}) = j - 1
  IN  [j \in 1..(n + 1) |-> SubSeq(s, At(j - 1) + 1, At(j) - 1)]

\* The reducer of lines 61-71: the piece after the last space of the
\* statement, unless it is empty.
ExportNameOf(list, statement) ==
  LET split == Split(statement, " ")
      res   == split[Len(split)]
  IN  IF Len(split) = 0 THEN list
      ELSE IF res = <<>> THEN list
      ELSE Append(list, res)

RECURSIVE Reduce(_, _, _)
Reduce(statements, k, list) ==
  IF k > Len(statements) THEN list
  ELSE Reduce(statements, k + 1, ExportNameOf(list, statements[k]))

\* The exports getExports records for a file of these contents.
ExportsOf(contents) == Reduce(StringMatch(contents, ExportPattern), 1, <<>>)

(***************************************************************************)
(* isImported                                                              *)
(***************************************************************************)
\* (.|\n)
DotOrNewline == Alt(<< NotIn(LineTerminators), Lit(<<"\n">>) >>)

\* new RegExp(`import{1}(.|\n)+(${exportName})+(.|\n)+from.+`, 'gm')
ImportPattern(exportName) ==
  Cat(<< Lit(<<"i","m","p","o","r">>),
         Lit(<<"t">>),
         Plus(DotOrNewline),
         Plus(Lit(exportName)),
         Plus(DotOrNewline),
         Lit(<<"f","r","o","m">>),
         Plus(NotIn(LineTerminators)) >>)

\* isImported with "more than one match" for "a match"
isImportedTwice(exportName, contents) ==
  Len(StringMatch(contents, ImportPattern(exportName))) > 1

isImported(exportName, contents) ==
  LET importStatements == StringMatch(contents, ImportPattern(exportName))
  IN  IF importStatements = <<>> THEN FALSE
      ELSE Len(importStatements) > 0

(***************************************************************************)
(* Program constants (lines 4-8).                                          *)
(***************************************************************************)
PATH_ARG == <<"-","-","p","a","t","h","=">>

EXT_ARG == <<"-","-","e","x","t","=">>

IGNORE_ARG == <<"-","-","i","g","n","o","r","e","=">>

DEFAULT_IGNORE ==
  << <<"n","o","d","e","_","m","o","d","u","l","e","s">>,
     <<"b","u","i","l","d">>,
     <<"l","i","b">>,
     <<"d","i","s","t">>,
     <<"c","o","v","e","r","a","g","e">>,
     <<"p","u","b","l","i","c">>,
     <<"s","t","a","t","i","c">>,
     <<"a","s","s","e","t","s">> >>

DEFAULT_EXTENSIONS ==
  << <<".","j","s">>, <<".","j","s","x">>, <<".","t","s">>, <<".","t","s","x">> >>

(***************************************************************************)
(* Strings, arrays and paths.                                              *)
(***************************************************************************)
\* Array.prototype.includes
Includes(list, x) == \E k \in 1..Len(list) : list[k] = x

\* String.prototype.startsWith
StartsWith(s, prefix) ==
  Len(prefix) <= Len(s) /\ SubSeq(s, 1, Len(prefix)) = prefix

RECURSIVE TrimStart(_)
TrimStart(s) ==
  IF s # <<>> /\ Head(s) \in SpaceChars THEN TrimStart(Tail(s)) ELSE s

RECURSIVE TrimEnd(_)
TrimEnd(s) ==
  IF s # <<>> /\ s[Len(s)] \in SpaceChars
  THEN TrimEnd(SubSeq(s, 1, Len(s) - 1)) ELSE s

\* String.prototype.trim
Trim(s) == TrimEnd(TrimStart(s))

\* path.join(home, file) for a home without a trailing separator and a
\* directory entry name
PathJoin(home, file) == home \o <<"/">> \o file

\* The base name of a path
BaseName(path) == LET parts == Split(path, "/") IN parts[Len(parts)]

\* path.extname: from the last "." of the base name, unless there is none
\* or it is the first character
ExtName(path) ==
  LET base == BaseName(path)
      dots == {k \in 1..Len(base) : base[k] = "."}
      last == CHOOSE k \in dots : \A j \in dots : j <= k
  IN  IF dots = {} THEN <<>>
      ELSE IF last = 1 THEN <<>>
      ELSE SubSeq(base, last, Len(base))

\* The first argument that starts with flag (process.argv.find), as a
\* sequence of zero or one argument
FindArg(args, flag) ==
  LET hits == {k \in 1..Len(args) : StartsWith(args[k], flag)}
  IN  IF hits = {} THEN <<>>
      ELSE <<args[CHOOSE k \in hits : \A j \in hits : k <= j]>>

\* arg.split(FLAG)[1] for an argument that starts with the flag and does
\* not hold it a second time
ArgValue(arg, flag) == SubSeq(arg, Len(flag) + 1, Len(arg))

\* Lines 152-162
ExtensionsOf(args) ==
  LET extArg == FindArg(args, EXT_ARG)
      parts  == Split(ArgValue(extArg[1], EXT_ARG), ",")
  IN  IF extArg # <<>>
      THEN [k \in 1..Len(parts) |->
              IF StartsWith(Trim(parts[k]), <<".">>) THEN Trim(parts[k])
              ELSE <<".">> \o Trim(parts[k])]
      ELSE DEFAULT_EXTENSIONS

\* Lines 165-175
IgnorePathsOf(args) ==
  LET ignoreArg == FindArg(args, IGNORE_ARG)
      parts     == Split(ArgValue(ignoreArg[1], IGNORE_ARG), ",")
  IN  IF ignoreArg # <<>>
      THEN [k \in 1..Len(parts) |-> Trim(parts[k])]
      ELSE DEFAULT_IGNORE

(***************************************************************************)
(* The file system: a directory entry is                                   *)
(*   [name, kind ("dir" or "file"), entries (of a directory, in readdir    *)
(*    order), contents (of a file)].                                       *)
(***************************************************************************)
FileNode(name, contents) ==
  [name |-> name, kind |-> "file", entries |-> <<>>, contents |-> contents]

DirNode(name, entries) ==
  [name |-> name, kind |-> "dir", entries |-> entries, contents |-> <<>>]

RECURSIVE LookupIn(_, _, _)
\* The entry that the components parts[k..] lead to from the entries of a
\* directory, as a sequence of zero or one entry
LookupIn(entries, parts, k) ==
  LET hits == {j \in 1..Len(entries) : entries[j].name = parts[k]}
      node == entries[CHOOSE j \in hits : TRUE]
  IN  IF hits = {} THEN <<>>
      ELSE IF k = Len(parts) THEN <<node>>
      ELSE IF node.kind # "dir" THEN <<>>
      ELSE LookupIn(node.entries, parts, k + 1)

\* What a path names in the tree whose top-level entries are top
Lookup(top, path) == LookupIn(top, Split(path, "/"), 1)

\* fs.readdir of a directory
Readdir(top, path) ==
  LET node == Lookup(top, path)[1]
  IN  [k \in 1..Len(node.entries) |-> node.entries[k].name]

VARIABLES
  pc,                   \* where main is
  argv,                 \* process.argv: the command-line arguments
  fs,                   \* the top-level entries of the file system
  basePath,             \* main's basePath
  extensions,           \* main's extensions
  ignorePaths,          \* main's ignorePaths
  stack,                \* the getAllFiles calls in progress, innermost last
  files,                \* main's files: what getAllFiles returned
  fileExports,          \* getExports' fileExports
  fileA,                \* index in fileExports of the outer loop's file
  fileB,                \* index in fileExports of the inner loop's file
  importCounts,         \* the counters of fileA
  filesWithDeadExports, \* the report: a Map, in insertion order
  out,                  \* what console.log has printed
  call                  \* a single call of isImported and its result

vars == << pc, argv, fs, basePath, extensions, ignorePaths, stack, files,
           fileExports, fileA, fileB, importCounts, filesWithDeadExports,
           out, call >>

NoCall == [exportName |-> <<>>, contents |-> <<>>, result |-> "none"]

(***************************************************************************)
(* getAllFiles (lines 17-38), one action per awaited operation.  A frame   *)
(* of stack is one call: [home, listed, files, i, paths].                  *)
(***************************************************************************)
Frame(home) ==
  [home |-> home, listed |-> FALSE, files |-> <<>>, i |-> 1, paths |-> <<>>]

Top == stack[Len(stack)]

SetTop(frame) == [stack EXCEPT ![Len(stack)] = frame]

\* IsIgnored comparing with the first ignore entry alone
IsIgnoredFirstOnly(ignore, file) == ignore # <<>> /\ ignore[1] = file

\* Line 25: ignore.includes(file)
IsIgnored(ignore, file) == Includes(ignore, file)

\* Line 32: extensions.includes(ext)
HasExtension(exts, filePath) == Includes(exts, ExtName(filePath))

\* Rejected with the failure caught and the report printed all the same
RejectedButReported ==
  /\ pc' = "print"
  /\ UNCHANGED << argv, fs, basePath, extensions, ignorePaths, stack, files,
                  fileExports, fileA, fileB, importCounts,
                  filesWithDeadExports, out, call >>

\* An operation of fs/promises either succeeds or rejects; a rejection is
\* not caught anywhere, so it ends main.
Rejected ==
  /\ pc' = "failed"
  /\ UNCHANGED << argv, fs, basePath, extensions, ignorePaths, stack, files,
                  fileExports, fileA, fileB, importCounts,
                  filesWithDeadExports, out, call >>

\* Line 18: await fs.readdir(home)
WalkReaddir ==
  /\ pc = "walk"
  /\ stack # <<>>
  /\ ~Top.listed
  /\ \/ /\ stack' = SetTop([Top EXCEPT !.listed = TRUE,
                                        !.files = Readdir(fs, Top.home)])
        /\ UNCHANGED << pc, argv, fs, basePath, extensions, ignorePaths,
                        files, fileExports, fileA, fileB, importCounts,
                        filesWithDeadExports, out, call >>
     \/ Rejected

\* Lines 20-35: one turn of the loop, up to the recursive call.  The entries
\* of the trees are directories and regular files.
WalkEntry ==
  /\ pc = "walk"
  /\ stack # <<>>
  /\ Top.listed
  /\ Top.i <= Len(Top.files)
  /\ LET file     == Top.files[Top.i]
         filePath == PathJoin(Top.home, file)
         stat     == Lookup(fs, filePath)[1]
     IN  \/ /\ stack' =
                 IF stat.kind = "dir"
                 THEN IF IsIgnored(ignorePaths, file)
                      THEN SetTop([Top EXCEPT !.i = @ + 1])
                      ELSE Append(stack, Frame(filePath))
                 ELSE IF HasExtension(extensions, filePath)
                      THEN SetTop([Top EXCEPT !.i = @ + 1,
                                              !.paths = Append(@, filePath)])
                      ELSE SetTop([Top EXCEPT !.i = @ + 1])
            /\ UNCHANGED << pc, argv, fs, basePath, extensions, ignorePaths,
                            files, fileExports, fileA, fileB, importCounts,
                            filesWithDeadExports, out, call >>
         \/ Rejected

\* Lines 28-29 and 37: a call returns its paths, to the call that made it
\* or to main (line 178)
WalkReturn ==
  /\ pc = "walk"
  /\ stack # <<>>
  /\ Top.listed
  /\ Top.i > Len(Top.files)
  /\ IF Len(stack) > 1
     THEN /\ stack' =
               LET caller == stack[Len(stack) - 1]
               IN  Append(SubSeq(stack, 1, Len(stack) - 2),
                          [caller EXCEPT !.i = @ + 1,
                                         !.paths = @ \o Top.paths])
          /\ UNCHANGED << pc, files >>
     ELSE /\ stack' = <<>>
          /\ files' = Top.paths
          /\ pc' = "read"
  /\ UNCHANGED << argv, fs, basePath, extensions, ignorePaths, fileExports,
                  fileA, fileB, importCounts, filesWithDeadExports, out,
                  call >>

(***************************************************************************)
(* getExports (lines 51-77)                                                *)
(***************************************************************************)
FileDetails(path, exports, contents) ==
  [path |-> path, exports |-> exports, contents |-> contents]

\* Lines 54-73: one turn of the loop
ReadFile ==
  /\ pc = "read"
  /\ Len(fileExports) < Len(files)
  /\ LET file     == files[Len(fileExports) + 1]
         contents == Lookup(fs, file)[1].contents
     IN  \/ /\ fileExports' =
                 Append(fileExports,
                        FileDetails(file, ExportsOf(contents), contents))
            /\ UNCHANGED << pc, argv, fs, basePath, extensions, ignorePaths,
                            stack, files, fileA, fileB, importCounts,
                            filesWithDeadExports, out, call >>
         \/ Rejected

\* Line 76, and line 180's call
ReadReturn ==
  /\ pc = "read"
  /\ Len(fileExports) = Len(files)
  /\ pc' = "begin"
  /\ fileA' = 1
  /\ UNCHANGED << argv, fs, basePath, extensions, ignorePaths, stack, files,
                  fileExports, fileB, importCounts, filesWithDeadExports,
                  out, call >>

(***************************************************************************)
(* isImported's caller: the counters of line 104, a JavaScript object.     *)
(* An object is the sequence of its [key, count] properties in the order   *)
(* Object.entries enumerates them: the array indices in ascending numeric  *)
(* order first, then the other keys in the order they were added.          *)
(***************************************************************************)
MaxArrayIndex == <<"4","2","9","4","9","6","7","2","9","4">>

DigitOrder == <<"0","1","2","3","4","5","6","7","8","9">>

DigitValue(c) == CHOOSE d \in 1..10 : DigitOrder[d] = c

RECURSIVE DigitsLess(_, _)
\* Numeric order of two digit strings of the same length
DigitsLess(x, y) ==
  IF x = <<>> THEN FALSE
  ELSE IF Head(x) # Head(y) THEN DigitValue(Head(x)) < DigitValue(Head(y))
  ELSE DigitsLess(Tail(x), Tail(y))

\* Numeric order of two canonical numeric strings
IndexLess(x, y) ==
  Len(x) < Len(y) \/ (Len(x) = Len(y) /\ DigitsLess(x, y))

\* A key that is an array index: a canonical numeric string up to 2^32 - 2
IsArrayIndex(key) ==
  /\ key # <<>>
  /\ \A k \in 1..Len(key) : key[k] \in DigitChars
  /\ Len(key) = 1 \/ key[1] # "0"
  /\ ~IndexLess(MaxArrayIndex, key)

HasKey(obj, key) == \E k \in 1..Len(obj) : obj[k].key = key

\* { ...obj, [key]: count }
ObjPut(obj, key, count) ==
  LET prop   == [key |-> key, count |-> count]
      before == {k \in 1..Len(obj) :
                   IsArrayIndex(obj[k].key) /\ IndexLess(obj[k].key, key)}
      n      == Cardinality(before)
  IN  IF HasKey(obj, key)
      THEN [k \in 1..Len(obj) |-> IF obj[k].key = key THEN prop ELSE obj[k]]
      ELSE IF IsArrayIndex(key)
      THEN SubSeq(obj, 1, n) \o <<prop>> \o SubSeq(obj, n + 1, Len(obj))
      ELSE Append(obj, prop)

\* obj[key]++ for a key of obj
ObjIncrement(obj, key) ==
  [k \in 1..Len(obj) |->
     IF obj[k].key = key THEN [obj[k] EXCEPT !.count = @ + 1] ELSE obj[k]]

RECURSIVE InitialCounts(_, _, _)
\* Line 104: fileA.exports.reduce((map, exp) => ({ ...map, [exp]: 0 }), {})
InitialCounts(exports, k, map) ==
  IF k > Len(exports) THEN map
  ELSE InitialCounts(exports, k + 1, ObjPut(map, exports[k], 0))

\* IsSameFile without the comparison: a file is scanned against itself too
IsSameFileNever(a, b) == FALSE

\* Line 108: fileA === fileB, the identity of two members of fileExports
IsSameFile(a, b) == a = b

RECURSIVE ScanExports(_, _, _, _)
\* Lines 113-118: the exports of fileA against the contents of one fileB
ScanExports(exports, k, contents, counts) ==
  IF k > Len(exports) THEN counts
  ELSE ScanExports(exports, k + 1, contents,
                   IF isImported(exports[k], contents)
                   THEN ObjIncrement(counts, exports[k])
                   ELSE counts)

\* Map.prototype.get, as a sequence of zero or one value
MapGet(map, key) ==
  LET hits == {k \in 1..Len(map) : map[k].key = key}
  IN  IF hits = {} THEN <<>> ELSE <<map[CHOOSE k \in hits : TRUE].value>>

\* Map.prototype.set: a new key goes last
MapSet(map, key, value) ==
  IF MapGet(map, key) # <<>>
  THEN [k \in 1..Len(map) |->
          IF map[k].key = key THEN [key |-> key, value |-> value] ELSE map[k]]
  ELSE Append(map, [key |-> key, value |-> value])

\* IsDeadCount with the test turned round
IsDeadCountInverted(count) == count > 0

\* Line 123: count > 0 is not a dead export
IsDeadCount(count) == ~(count > 0)

RECURSIVE CollectDeadAlways(_, _, _, _)
\* CollectDead that makes the file a key even when nothing is dead
CollectDeadAlways(entries, k, map, a) ==
  IF k > Len(entries)
  THEN (IF MapGet(map, a) = <<>> THEN MapSet(map, a, <<>>) ELSE map)
  ELSE IF entries[k].count > 0 THEN CollectDeadAlways(entries, k + 1, map, a)
  ELSE LET existingEntry == MapGet(map, a)
       IN  CollectDeadAlways(entries, k + 1,
                             IF existingEntry # <<>>
                             THEN MapSet(map, a, Append(existingEntry[1], entries[k].key))
                             ELSE MapSet(map, a, <<entries[k].key>>),
                             a)

RECURSIVE CollectDead(_, _, _, _)
\* Lines 121-133: the entries of the counters, in Object.entries order
CollectDead(entries, k, map, a) ==
  IF k > Len(entries) THEN map
  ELSE IF ~IsDeadCount(entries[k].count) THEN CollectDead(entries, k + 1, map, a)
  ELSE LET existingEntry == MapGet(map, a)
       IN  CollectDead(entries, k + 1,
                       IF existingEntry # <<>>
                       THEN MapSet(map, a, Append(existingEntry[1], entries[k].key))
                       ELSE MapSet(map, a, <<entries[k].key>>),
                       a)

(***************************************************************************)
(* getFilesWithDeadExports (lines 100-137)                                 *)
(***************************************************************************)
\* Lines 103-104: the outer loop takes its next file
XrefBegin ==
  /\ pc = "begin"
  /\ fileA <= Len(fileExports)
  /\ importCounts' = InitialCounts(fileExports[fileA].exports, 1, <<>>)
  /\ fileB' = 1
  /\ pc' = "scan"
  /\ UNCHANGED << argv, fs, basePath, extensions, ignorePaths, stack, files,
                  fileExports, fileA, filesWithDeadExports, out, call >>

\* Lines 106-119: one turn of the inner loop over the files
XrefScan ==
  /\ pc = "scan"
  /\ fileB <= Len(fileExports)
  /\ importCounts' =
       IF IsSameFile(fileA, fileB) THEN importCounts
       ELSE ScanExports(fileExports[fileA].exports, 1,
                        fileExports[fileB].contents, importCounts)
  /\ fileB' = fileB + 1
  /\ UNCHANGED << pc, argv, fs, basePath, extensions, ignorePaths, stack,
                  files, fileExports, fileA, filesWithDeadExports, out, call >>

\* Lines 121-133
XrefCollect ==
  /\ pc = "scan"
  /\ fileB > Len(fileExports)
  /\ filesWithDeadExports' =
       CollectDead(importCounts, 1, filesWithDeadExports, fileA)
  /\ fileA' = fileA + 1
  /\ pc' = "begin"
  /\ UNCHANGED << argv, fs, basePath, extensions, ignorePaths, stack, files,
                  fileExports, fileB, importCounts, out, call >>

\* Line 136
XrefReturn ==
  /\ pc = "begin"
  /\ fileA > Len(fileExports)
  /\ pc' = "print"
  /\ UNCHANGED << argv, fs, basePath, extensions, ignorePaths, stack, files,
                  fileExports, fileA, fileB, importCounts,
                  filesWithDeadExports, out, call >>

(***************************************************************************)
(* main (lines 139-190)                                                    *)
(***************************************************************************)
Line(label, value) == [label |-> label, value |-> value]

RECURSIVE ReportLines(_, _)
\* Lines 183-188: the four lines of each entry, from entry number index on
ReportLines(map, index) ==
  IF index > Len(map) THEN <<>>
  ELSE << Line("File #", index),
          Line("Path:", fileExports[map[index].key].path),
          Line("Dead exports:", map[index].value),
          Line("Total:", Len(map[index].value)) >>
         \o ReportLines(map, index + 1)

\* Lines 141-149 and 151-178: the arguments, and the first call of
\* getAllFiles
MainStart ==
  /\ pc = "start"
  /\ LET pathArg == FindArg(argv, PATH_ARG)
         base    == ArgValue(pathArg[1], PATH_ARG)
         stat    == Lookup(fs, base)
     IN  \/ /\ pathArg # <<>>
            /\ stat # <<>>
            /\ stat[1].kind = "dir"
            /\ basePath' = base
            /\ extensions' = ExtensionsOf(argv)
            /\ ignorePaths' = IgnorePathsOf(argv)
            /\ stack' = <<Frame(base)>>
            /\ pc' = "walk"
            /\ UNCHANGED << argv, fs, files, fileExports, fileA, fileB,
                            importCounts, filesWithDeadExports, out, call >>
         \/ Rejected

\* Lines 183-189
PrintResults ==
  /\ pc = "print"
  /\ out' = out \o ReportLines(filesWithDeadExports, 1)
                \o << Line("Total files with dead exports:",
                           Len(filesWithDeadExports)) >>
  /\ pc' = "done"
  /\ UNCHANGED << argv, fs, basePath, extensions, ignorePaths, stack, files,
                  fileExports, fileA, fileB, importCounts,
                  filesWithDeadExports, call >>

\* One call of isImported
IsImportedCall ==
  /\ pc = "isImported"
  /\ call.result = "none"
  /\ call' = [call EXCEPT !.result =
                IF isImported(call.exportName, call.contents)
                THEN "true" ELSE "false"]
  /\ UNCHANGED << pc, argv, fs, basePath, extensions, ignorePaths, stack,
                  files, fileExports, fileA, fileB, importCounts,
                  filesWithDeadExports, out >>

(***************************************************************************)
(* Inputs.  Every specification starts main, or one of its functions, on   *)
(* inputs drawn from the bounded sets below.                               *)
(***************************************************************************)
MaxNodes == 3        \* entries of the tree below its top directory

MaxFiles == 2        \* files of a flat directory (cross-referencing)

MaxTotalLines == 3   \* lines of those files, all together

MaxDecls == 2        \* export declarations of a file (extraction)

MaxChunks == 6       \* pieces of a text (import detection)

Idle ==
  /\ basePath = <<>>
  /\ extensions = <<>>
  /\ ignorePaths = <<>>
  /\ stack = <<>>
  /\ files = <<>>
  /\ fileExports = <<>>
  /\ fileA = 0
  /\ fileB = 0
  /\ importCounts = <<>>
  /\ filesWithDeadExports = <<>>
  /\ out = <<>>
  /\ call = NoCall

SrcDir == <<"s","r","c">>

ExportQ == <<"e","x","p","o","r","t"," ","c","o","n","s","t"," ","q">>

ImportQ == <<"i","m","p","o","r","t"," ","{"," ","q"," ","}"," ","f","r","o","m"," ","'","m","'">>

DirNames == { <<"b","u","i","l","d">>, <<"a","p","p">> }

FileChoices ==
  { FileNode(<<"a",".","t","s">>, ExportQ), FileNode(<<"a",".","t","s">>, ImportQ),
    FileNode(<<"n",".","m","d">>, ExportQ) }

RECURSIVE Forests(_)
\* The entry lists of at most n entries in all, subdirectories' included
Forests(n) ==
  IF n = 0 THEN {<<>>}
  ELSE {<<>>}
       \cup {<<f>> \o rest : f \in FileChoices, rest \in Forests(n - 1)}
       \cup UNION {{<<DirNode(d, sub)>> \o rest :
                       d \in DirNames, sub \in Forests(m - 1),
                       rest \in Forests(n - m)} : m \in 1..n}

RECURSIVE DistinctNames(_)
\* No directory holds two entries of one name
DistinctNames(entries) ==
  /\ \A j, k \in 1..Len(entries) : entries[j].name = entries[k].name => j = k
  /\ \A k \in 1..Len(entries) : DistinctNames(entries[k].entries)

\* The trees of at most n entries below the top directory
Trees(n) ==
  {<<DirNode(SrcDir, f)>> : f \in {g \in Forests(n) : DistinctNames(g)}}

\* --path: absent, the top directory, its first entry, or a path of nothing
PathArgs(top) ==
  { <<>>, <<PATH_ARG \o SrcDir>>, <<PATH_ARG \o <<"t","m","p">>>> }
  \cup { <<PATH_ARG \o PathJoin(SrcDir, top[1].entries[k].name)>> :
           k \in 1..Len(top[1].entries) }

ExtArgs == { <<>>, <<EXT_ARG \o <<"t","s",","," ",".","m","d">>>> }

IgnoreArgs == { <<>>, <<IGNORE_ARG \o <<"l","i","b",","," ","a","p","p">>>> }

Init ==
  /\ pc = "start"
  /\ fs \in Trees(MaxNodes)
  /\ \E p \in PathArgs(fs), e \in ExtArgs, i \in IgnoreArgs : argv = p \o e \o i
  /\ Idle

Next ==
  \/ MainStart
  \/ WalkReaddir
  \/ WalkEntry
  \/ WalkReturn
  \/ ReadFile
  \/ ReadReturn
  \/ XrefBegin
  \/ XrefScan
  \/ XrefCollect
  \/ XrefReturn
  \/ PrintResults

\* main, from its start, on a small tree
Spec == Init /\ [][Next]_vars

(***************************************************************************)
(* Cross-referencing: main after getExports has returned, for a flat       *)
(* directory of files whose lines are export and import statements.        *)
(***************************************************************************)
LineKinds ==
  { ExportQ, <<"e","x","p","o","r","t"," ","d","e","f","a","u","l","t"," ","1">>, ImportQ, <<"i","m","p","o","r","t"," ","{"," ","1"," ","}"," ","f","r","o","m"," ","'","m","'">> }

RECURSIVE JoinLines(_)
JoinLines(lines) ==
  IF lines = <<>> THEN <<>>
  ELSE IF Len(lines) = 1 THEN lines[1]
  ELSE lines[1] \o <<"\n">> \o JoinLines(Tail(lines))

RECURSIVE ContentLists(_, _)
\* The contents of f files of at most l lines in all
ContentLists(f, l) ==
  IF f = 0 THEN {<<>>}
  ELSE UNION {{<<JoinLines(x)>> \o rest :
                  x \in [1..k -> LineKinds], rest \in ContentLists(f - 1, l - k)}
              : k \in 0..l}

FlatName(k) == <<"f", DigitOrder[k + 1], ".", "t", "s">>

FlatPath(k) == PathJoin(SrcDir, FlatName(k))

FlatTree(contents) ==
  <<DirNode(SrcDir, [k \in 1..Len(contents) |-> FileNode(FlatName(k), contents[k])])>>

\* The state in which getExports returns for a flat tree
AfterGetExports(contents) ==
  /\ fs = FlatTree(contents)
  /\ argv = <<PATH_ARG \o SrcDir>>
  /\ basePath = SrcDir
  /\ extensions = DEFAULT_EXTENSIONS
  /\ ignorePaths = DEFAULT_IGNORE
  /\ stack = <<>>
  /\ files = [k \in 1..Len(contents) |-> FlatPath(k)]
  /\ fileExports = [k \in 1..Len(contents) |->
                      FileDetails(FlatPath(k), ExportsOf(contents[k]), contents[k])]
  /\ fileA = 1
  /\ fileB = 0
  /\ importCounts = <<>>
  /\ filesWithDeadExports = <<>>
  /\ out = <<>>
  /\ call = NoCall

InitXref ==
  /\ pc = "begin"
  /\ \E f \in 1..MaxFiles : \E c \in ContentLists(f, MaxTotalLines) :
       AfterGetExports(c)

NextXref ==
  \/ XrefBegin
  \/ XrefScan
  \/ XrefCollect
  \/ XrefReturn
  \/ PrintResults

SpecXref == InitXref /\ [][NextXref]_vars

(***************************************************************************)
(* Extraction: getExports on one file of export declarations.              *)
(***************************************************************************)
ExportWord == <<"e","x","p","o","r","t">>

Blanks == { <<>>, <<" ">>, <<"\t">>, <<"\n">>, <<" ", " ">> }

DeclKeywords == { ExportKeywords[1], ExportKeywords[9], ExportKeywords[11] }

DeclNames == { <<"q">>, <<"z","1">> }

Decls ==
  { ExportWord \o b1 \o kw \o b2 \o n :
      b1 \in Blanks, kw \in DeclKeywords, b2 \in Blanks, n \in DeclNames }

RECURSIVE JoinDecls(_)
JoinDecls(ds) ==
  IF ds = <<>> THEN <<>>
  ELSE ds[1] \o <<";", "\n">> \o JoinDecls(Tail(ds))

\* The texts of at most max declarations
ExportTexts(max) ==
  UNION {{JoinDecls(ds) : ds \in [1..n -> Decls]} : n \in 0..max}

InitExports ==
  /\ pc = "read"
  /\ \E t \in ExportTexts(MaxDecls) :
       /\ fs = FlatTree(<<t>>)
       /\ files = <<FlatPath(1)>>
  /\ argv = <<PATH_ARG \o SrcDir>>
  /\ basePath = SrcDir
  /\ extensions = DEFAULT_EXTENSIONS
  /\ ignorePaths = DEFAULT_IGNORE
  /\ stack = <<>>
  /\ fileExports = <<>>
  /\ fileA = 0
  /\ fileB = 0
  /\ importCounts = <<>>
  /\ filesWithDeadExports = <<>>
  /\ out = <<>>
  /\ call = NoCall

NextExports ==
  \/ ReadFile
  \/ ReadReturn

SpecExports == InitExports /\ [][NextExports]_vars

(***************************************************************************)
(* Import detection: one call of isImported.                               *)
(***************************************************************************)
Chunks ==
  { <<"i","m","p","o","r","t">>, <<"f","r","o","m">>,
    <<"q">>, <<"Q">>, <<"\n">>, <<"\r">> }

RECURSIVE Concat(_)
Concat(ss) == IF ss = <<>> THEN <<>> ELSE Head(ss) \o Concat(Tail(ss))

\* The texts of at most max chunks
ImportTexts(max) ==
  UNION {{Concat(cs) : cs \in [1..n -> Chunks]} : n \in 0..max}

InitImport ==
  /\ pc = "isImported"
  /\ argv = <<>>
  /\ fs = <<>>
  /\ basePath = <<>>
  /\ extensions = <<>>
  /\ ignorePaths = <<>>
  /\ stack = <<>>
  /\ files = <<>>
  /\ fileExports = <<>>
  /\ fileA = 0
  /\ fileB = 0
  /\ importCounts = <<>>
  /\ filesWithDeadExports = <<>>
  /\ out = <<>>
  /\ \E t \in ImportTexts(MaxChunks) :
       call = [exportName |-> <<"q">>, contents |-> t, result |-> "none"]

NextImport == IsImportedCall

SpecImport == InitImport /\ [][NextImport]_vars

(***************************************************************************)
(* getFilesWithDeadExports as a function of its argument: what the loops   *)
(* of lines 103-134 leave under fileA for the files fe.                    *)
(***************************************************************************)
RECURSIVE ScanFiles(_, _, _, _)
ScanFiles(fe, a, b, counts) ==
  IF b > Len(fe) THEN counts
  ELSE ScanFiles(fe, a, b + 1,
                 IF IsSameFile(a, b) THEN counts
                 ELSE ScanExports(fe[a].exports, 1, fe[b].contents, counts))

DeadExportsOf(fe, a) ==
  LET counts == ScanFiles(fe, a, 1, InitialCounts(fe[a].exports, 1, <<>>))
      entry  == MapGet(CollectDead(counts, 1, <<>>, a), a)
  IN  IF entry = <<>> THEN <<>> ELSE entry[1]

(***************************************************************************)
(* Vocabulary of the properties.                                           *)
(***************************************************************************)
Range(seq) == {seq[k] : k \in 1..Len(seq)}

\* getFilesWithDeadExports has returned (line 180)
Returned == pc = "print"

\* The dead-export list recorded for file a (empty when a is no key)
DeadList(a) ==
  LET entry == MapGet(filesWithDeadExports, a)
  IN  IF entry = <<>> THEN <<>> ELSE entry[1]

\* Some file other than a is detected to import name
ImportedElsewhere(name, a) ==
  \E b \in 1..Len(fileExports) :
    b # a /\ isImported(name, fileExports[b].contents)

Optional(r) == Alt(<<r, Lit(<<>>)>>)

\* import { name } from '<module>'
ImportLinePattern(name) ==
  Cat(<< Lit(<<"i","m","p","o","r","t">>),
         Optional(Plus(Lit(<<" ">>))),
         Lit(<<"{">>),
         Optional(Plus(Lit(<<" ">>))),
         Lit(name),
         Optional(Plus(Lit(<<" ">>))),
         Lit(<<"}">>),
         Optional(Plus(Lit(<<" ">>))),
         Lit(<<"f","r","o","m">>),
         Optional(Plus(Lit(<<" ">>))),
         Lit(<<"'">>),
         Plus(NotIn({"'", "\n", "\r"})),
         Lit(<<"'">>) >>)

\* Some line of contents is, as a whole, import { name } from '<module>'
HasImportLine(name, contents) ==
  \E line \in Range(Split(contents, "\n")) :
    Len(line) \in Range(Ends(ImportLinePattern(name), line, 0))

\* The first place of x in seq
FirstIndex(seq, x) == CHOOSE k \in 1..Len(seq) : seq[k] = x /\ \A j \in 1..(k - 1) : seq[j] # x

(***************************************************************************)
(* C1: when getFilesWithDeadExports returns, a name N is in A's dead-export list  *)
(* if and only if N is one of A's exports and isImported(N, B.contents) is *)
(* false for every other file B.                                           *)
(***************************************************************************)
C1_DeadIffNotImportedElsewhere ==
  Returned =>
    \A a \in 1..Len(fileExports) :
      \A n \in Range(fileExports[a].exports) \cup Range(DeadList(a))
               \cup UNION {Range(fileExports[b].exports) : b \in 1..Len(fileExports)} :
        (n \in Range(DeadList(a)))
          <=> (n \in Range(fileExports[a].exports) /\ ~ImportedElsewhere(n, a))

\* An analysed file one of whose exports is dead and another is imported by
\* another file
C1_Witness ==
  \E a \in 1..Len(fileExports) :
    /\ Returned
    /\ \E n, m \in Range(fileExports[a].exports) :
         /\ n \in Range(DeadList(a))
         /\ m \notin Range(DeadList(a))
         /\ ImportedElsewhere(m, a)

(***************************************************************************)
(* C2: the names of A's dead-export list are in the order in which         *)
(* A.exports first declares them.                                          *)
(***************************************************************************)
C2_DeclarationOrder ==
  Returned =>
    \A a \in 1..Len(fileExports) :
      \A j, k \in 1..Len(DeadList(a)) :
        j < k => FirstIndex(fileExports[a].exports, DeadList(a)[j])
                   < FirstIndex(fileExports[a].exports, DeadList(a)[k])

(***************************************************************************)
(* C3: while file A is analysed, each other file B scanned so far has      *)
(* added at most one to each counter of A: a counter is between 0 and the  *)
(* number of other files scanned, hence at most (number of files - 1).     *)
(***************************************************************************)
C3_CounterAtMostOnePerFile ==
  pc = "scan" =>
    \A k \in 1..Len(importCounts) :
      /\ importCounts[k].count >= 0
      /\ importCounts[k].count <= Cardinality({b \in 1..(fileB - 1) : b # fileA})
      /\ importCounts[k].count <= Len(fileExports) - 1

(***************************************************************************)
(* C4: if another file B has a line import { N } from '<module>', then an  *)
(* export N of A is not in A's dead-export list.                           *)
(***************************************************************************)
C4_ImportLineKeepsAlive ==
  Returned =>
    \A a \in 1..Len(fileExports) :
      \A n \in Range(fileExports[a].exports) :
        (\E b \in 1..Len(fileExports) :
            b # a /\ HasImportLine(n, fileExports[b].contents))
          => n \notin Range(DeadList(a))

\* An analysed file with a dead export and an export that a line of another
\* file imports
C4_Witness ==
  \E a \in 1..Len(fileExports) :
    /\ Returned
    /\ DeadList(a) # <<>>
    /\ \E n \in Range(fileExports[a].exports) :
         \E b \in 1..Len(fileExports) :
           b # a /\ HasImportLine(n, fileExports[b].contents)

(***************************************************************************)
(* C5: A's own contents do not count: an export N that only A itself       *)
(* imports is reported dead for A, and A's dead-export list is what it     *)
(* would be with any other contents of A (A.exports kept).                 *)
(***************************************************************************)
OtherContents == {<<>>} \cup LineKinds

C5_SelfImportExcluded ==
  Returned =>
    \A a \in 1..Len(fileExports) :
      /\ \A n \in Range(fileExports[a].exports) :
           (HasImportLine(n, fileExports[a].contents) /\ ~ImportedElsewhere(n, a))
             => n \in Range(DeadList(a))
      /\ \A t \in OtherContents :
           DeadExportsOf([fileExports EXCEPT ![a].contents = t], a) = DeadList(a)

\* An analysed file that imports its own export, which is reported dead,
\* beside another file
C5_Witness ==
  \E a \in 1..Len(fileExports) :
    /\ Returned
    /\ Len(fileExports) > 1
    /\ \E n \in Range(fileExports[a].exports) :
         /\ HasImportLine(n, fileExports[a].contents)
         /\ n \in Range(DeadList(a))

(***************************************************************************)
(* C6: when the analysis of a file F ends, F is a key of the report if and *)
(* only if one of its counters is zero; no entry of the report has an      *)
(* empty list, and no file without exports is a key.                       *)
(***************************************************************************)
C6_KeyIffSomeZeroCounter ==
  /\ (pc = "begin" /\ fileA >= 2) =>
       ((MapGet(filesWithDeadExports, fileA - 1) # <<>>)
          <=> (\E k \in 1..Len(importCounts) : importCounts[k].count = 0))
  /\ \A k \in 1..Len(filesWithDeadExports) :
       /\ filesWithDeadExports[k].value # <<>>
       /\ fileExports[filesWithDeadExports[k].key].exports # <<>>

\* The analysis of a file with exports and no zero counter has ended, after
\* an earlier file was made a key
C6_Witness ==
  /\ pc = "begin"
  /\ fileA >= 2
  /\ importCounts # <<>>
  /\ \A k \in 1..Len(importCounts) : importCounts[k].count > 0
  /\ filesWithDeadExports # <<>>

(***************************************************************************)
(* Vocabulary of the properties of the walk.                               *)
(***************************************************************************)
\* Every path a call of getAllFiles has collected or returned, and every
\* path of a file that was read
ReturnedPaths ==
  Range(files)
    \cup UNION {Range(stack[k].paths) : k \in 1..Len(stack)}
    \cup {fileExports[k].path : k \in 1..Len(fileExports)}

\* The directories on the way to path, from the one numbered first among
\* the components of the path
DirsOnPath(path, first) ==
  LET parts == Split(path, "/")
  IN  {parts[k] : k \in first..(Len(parts) - 1)}

RootDepth == Len(Split(basePath, "/"))

RECURSIVE FilePathsUnder(_, _)
\* The paths of the files of a tree whose entries lie in the directory home
FilePathsUnder(entries, home) ==
  UNION {IF entries[k].kind = "file" THEN {PathJoin(home, entries[k].name)}
         ELSE FilePathsUnder(entries[k].entries, PathJoin(home, entries[k].name))
         : k \in 1..Len(entries)}

(***************************************************************************)
(* C7, as claimed: no returned path has, among the directories from the    *)
(* scan root (included) down to the file, one whose base name is in the    *)
(* ignore list.                                                            *)
(***************************************************************************)
C7_NoIgnoredDirFromRoot ==
  \A p \in ReturnedPaths :
    \A d \in DirsOnPath(p, RootDepth) : ~Includes(ignorePaths, d)

(***************************************************************************)
(* C7, amended: no returned path has, among the directories below the scan *)
(* root down to the file, one whose base name is in the ignore list.       *)
(***************************************************************************)
C7_NoIgnoredDirBelowRoot ==
  \A p \in ReturnedPaths :
    \A d \in DirsOnPath(p, RootDepth + 1) : ~Includes(ignorePaths, d)

\* The walk has returned some file, and has left out a file of a scanned
\* extension that lies in an ignored directory below the root
C7_Witness ==
  /\ pc = "read"
  /\ files # <<>>
  /\ \E p \in FilePathsUnder(Lookup(fs, basePath)[1].entries, basePath) :
       /\ HasExtension(extensions, p)
       /\ \E d \in DirsOnPath(p, RootDepth + 1) : Includes(ignorePaths, d)
       /\ p \notin Range(files)

(***************************************************************************)
(* C8: something is printed only when main is done: --path was given and   *)
(* names a directory, the walk has returned, every file it returned has    *)
(* been read, in that order, and the cross-referencing is over; a run that *)
(* failed has printed nothing.                                             *)
(***************************************************************************)
C8_AllOrNothing ==
  /\ out # <<>> =>
       /\ pc = "done"
       /\ FindArg(argv, PATH_ARG) # <<>>
       /\ Lookup(fs, basePath) # <<>>
       /\ Lookup(fs, basePath)[1].kind = "dir"
       /\ stack = <<>>
       /\ Len(fileExports) = Len(files)
       /\ \A k \in 1..Len(files) : fileExports[k].path = files[k]
       /\ fileA = Len(fileExports) + 1
  /\ pc = "failed" => out = <<>>

\* A run that read two files or more and printed a report with an entry
C8_Witness ==
  /\ pc = "done"
  /\ Len(files) >= 2
  /\ Len(out) > 1

(***************************************************************************)
(* C9: for every occurrence the pattern matches, the recorded name is the  *)
(* identifier at the end of the match (its last run of word characters),   *)
(* one name per occurrence, in the order of the occurrences.               *)
(***************************************************************************)
TrailingWord(s) ==
  LET others == {k \in 1..Len(s) : s[k] \notin WordChars}
      last   == IF others = {} THEN 0
                ELSE CHOOSE k \in others : \A j \in others : j <= k
  IN  SubSeq(s, last + 1, Len(s))

C9_RecordsIdentifier ==
  \A f \in 1..Len(fileExports) :
    LET statements == StringMatch(fileExports[f].contents, ExportPattern)
    IN  /\ Len(fileExports[f].exports) = Len(statements)
        /\ \A k \in 1..Len(statements) :
             fileExports[f].exports[k] = TrailingWord(statements[k])

(***************************************************************************)
(* C10: isImported(N, text) is true exactly when text holds import, then   *)
(* one character or more (any characters), then N, then one character or   *)
(* more (any characters), then from and one more character of the same     *)
(* line.                                                                   *)
(***************************************************************************)
At(text, i, word) ==
  i + Len(word) <= Len(text) /\ SubSeq(text, i + 1, i + Len(word)) = word

SpanExists(name, text) ==
  \E i \in 0..Len(text) :
    /\ At(text, i, <<"i","m","p","o","r","t">>)
    /\ \E j \in (i + 7)..Len(text) :
         /\ At(text, j, name)
         /\ \E k \in (j + Len(name) + 1)..Len(text) :
              /\ At(text, k, <<"f","r","o","m">>)
              /\ k + 4 < Len(text)
              /\ text[k + 5] \notin LineTerminators

C10_TrueExactlyWhenSpanExists ==
  call.result # "none" =>
    ((call.result = "true") <=> SpanExists(call.exportName, call.contents))
====
